---- MODULE Spec2Model ----
(***************************************************************************)
(* A model of the druid example programs examples/multiwin.rs (a window    *)
(* whose menu is rebuilt from the application State, behind an             *)
(* EventInterceptor) and examples/slider.rs.                               *)
(*                                                                         *)
(* Values of Rust enums and structs are records.  Variants of one type     *)
(* have different field sets, so that two values of different variants     *)
(* are simply unequal.                                                     *)
(***************************************************************************)
EXTENDS Integers, Sequences, FiniteSets, TLC

\* Largest menu_count the environment lets the program reach.
MaxCount == 4
\* Largest index carried by a MENU_COUNT_ACTION command.
MaxIndex == 4
\* Largest number of windows the environment lets the program open.
MaxWindows == 2

\* slider.rs: largest value of DemoState, in tenths.
MaxValue == 8

VARIABLES
    target_os,    \* the cfg(target_os) the program was compiled for
    filter,       \* the closure the EventInterceptor was built with
    data,         \* the application State
    pc,           \* where the event loop stands
    cur,          \* the event being handled, or handled last
    ctx,          \* the EventCtx of that event
    cmdQueue,     \* commands submitted and not yet processed by the toolkit
    windowMenu,   \* the menu of the window that handles the events
    windows,      \* number of open windows
    contextMenu,  \* the context menu shown last, if any
    increments,   \* history: number of increment commands handled, while
                  \* nothing else has been handled; -1 afterwards
    lifecycle,    \* the paint, layout or update call made last on the
                  \* EventInterceptor, if any
    demo,         \* slider.rs: the application's DemoState
    lensCall      \* slider.rs: the call made last on a lens, if any

vars == <<target_os, filter, data, pc, cur, ctx, cmdQueue, windowMenu,
          windows, contextMenu, increments, lifecycle, demo, lensCall>>

----------------------------------------------------------------------------
(* Selectors *)

MENU_COUNT_ACTION == "menu-count-action"
MENU_INCREMENT_ACTION == "menu-increment-action"
MENU_DECREMENT_ACTION == "menu-decrement-action"
NEW_FILE == "sys::NEW_FILE"
NEW_WINDOW == "sys::NEW_WINDOW"
SET_MENU == "sys::SET_MENU"
SHOW_CONTEXT_MENU == "sys::SHOW_CONTEXT_MENU"
OTHER_COMMAND == "some-other-command"

(* Command::new(selector, object), one constructor per type of object, and *)
(* the command a bare Selector converts into.                              *)
Command_from(selector) == [selector |-> selector]
Command_index(selector, i) == [selector |-> selector, index |-> i]
Command_menu(selector, menu) == [selector |-> selector, menu |-> menu]
Command_window(selector, win) == [selector |-> selector, window |-> win]
Command_context(selector, cm) == [selector |-> selector, context_menu |-> cm]

(* cmd.get_object(): Some(i) when the command carries an index. *)
has_object(cmd) == "index" \in DOMAIN cmd

----------------------------------------------------------------------------
(* State *)

State(menu_count, selected) == [menu_count |-> menu_count, selected |-> selected]
State_default == State(0, 0)

(* A subtraction that does not saturate. *)
unchecked_sub(a, b) == a - b

(* usize::saturating_sub *)
saturating_sub(a, b) == IF a > b THEN a - b ELSE 0

----------------------------------------------------------------------------
(* Menus *)

LocalizedString_new(key) == [key |-> key]
with_arg_count(s, i) == [key |-> s.key, count |-> i]

MenuItem_new(title, command) ==
    [kind |-> "item", title |-> title, command |-> command,
     enabled |-> TRUE, selected |-> FALSE]
disabled_if(item, p) == IF p THEN [item EXCEPT !.enabled = FALSE] ELSE item
selected_if(item, p) == IF p THEN [item EXCEPT !.selected = TRUE] ELSE item

MenuDesc_new(title) == [kind |-> "menu", title |-> title, items |-> <<>>]
MenuDesc_empty == MenuDesc_new(LocalizedString_new(""))
append(menu, entry) == [menu EXCEPT !.items = Append(@, entry)]
append_iter(menu, entries) == [menu EXCEPT !.items = @ \o entries]

(* The platform's menus, opaque here. *)
SysMenu(name) == [kind |-> "sys", name |-> name]
mac_menu_bar ==
    append(append(MenuDesc_new(LocalizedString_new("")),
                  SysMenu("mac::application::default")),
           SysMenu("mac::file::default"))
win_file_default == SysMenu("win::file::default")

(* make_menu_item with the selection test off by one. *)
make_menu_item_selects_next(state, i) ==
    selected_if(
        disabled_if(
            MenuItem_new(with_arg_count(LocalizedString_new("hello-counter"), i),
                         Command_index(MENU_COUNT_ACTION, i)),
            i % 3 = 0),
        i = state.selected + 1)

(* make_menu_item with the disabled test inverted. *)
make_menu_item_disables_others(state, i) ==
    selected_if(
        disabled_if(
            MenuItem_new(with_arg_count(LocalizedString_new("hello-counter"), i),
                         Command_index(MENU_COUNT_ACTION, i)),
            i % 3 # 0),
        i = state.selected)

(* The item make_menu generates for index i. *)
make_menu_item(state, i) ==
    selected_if(
        disabled_if(
            MenuItem_new(with_arg_count(LocalizedString_new("hello-counter"), i),
                         Command_index(MENU_COUNT_ACTION, i)),
            i % 3 = 0),
        i = state.selected)

(* make_menu generating the items of 1..menu_count instead of             *)
(* 0..menu_count.                                                          *)
make_menu_from_one(state) ==
    LET base0 == MenuDesc_empty
        base1 == IF target_os = "macos" THEN mac_menu_bar ELSE base0
        base2 == IF target_os = "windows" THEN append(base1, win_file_default)
                 ELSE base1
    IN  IF state.menu_count # 0
        THEN append(base2,
                    append_iter(MenuDesc_new(LocalizedString_new("Custom")),
                                [k \in 1..state.menu_count |->
                                    make_menu_item(state, k)]))
        ELSE base2

make_menu(state) ==
    LET base0 == MenuDesc_empty
        base1 == IF target_os = "macos" THEN mac_menu_bar ELSE base0
        base2 == IF target_os = "windows" THEN append(base1, win_file_default)
                 ELSE base1
    IN  IF state.menu_count # 0
        THEN append(base2,
                    append_iter(MenuDesc_new(LocalizedString_new("Custom")),
                                [k \in 1..state.menu_count |->
                                    make_menu_item(state, k - 1)]))
        ELSE base2

make_context_menu ==
    append(append(MenuDesc_empty,
                  MenuItem_new(LocalizedString_new("Increment"),
                               Command_from(MENU_INCREMENT_ACTION))),
           MenuItem_new(LocalizedString_new("Decrement"),
                        Command_from(MENU_DECREMENT_ACTION)))

WindowDesc_new(root, menu) == [root |-> root, menu |-> menu]
ContextMenu_new(menu, pos) == [menu |-> menu, pos |-> pos]

----------------------------------------------------------------------------
(* Events *)

Event_Command(cmd) == [kind |-> "Command", cmd |-> cmd]
Event_MouseDown(button, pos) ==
    [kind |-> "MouseDown", mouse |-> [button |-> button, pos |-> pos]]
Event_MouseUp(button, pos) ==
    [kind |-> "MouseUp", mouse |-> [button |-> button, pos |-> pos]]
None == [kind |-> "None"]

is_right(button) == button = "right"

(* Where on the window a mouse event lands: on one of the two buttons or   *)
(* elsewhere.                                                              *)
Positions == {"inc_button", "dec_button", "elsewhere"}
Buttons == {"left", "right"}

Commands ==
    {Command_from(s) :
        s \in {NEW_FILE, MENU_COUNT_ACTION, MENU_INCREMENT_ACTION,
               MENU_DECREMENT_ACTION, OTHER_COMMAND}}
    \cup {Command_index(MENU_COUNT_ACTION, i) : i \in 0..MaxIndex}

Events ==
    {Event_Command(c) : c \in Commands}
    \cup {Event_MouseDown(b, p) : b \in Buttons, p \in Positions}
    \cup {Event_MouseUp(b, p) : b \in Buttons, p \in Positions}

----------------------------------------------------------------------------
(* EventCtx *)

(* The context the toolkit hands to the handler of one event.  calls is    *)
(* the log of the calls made while the event is handled.                   *)
EventCtx_new(focus) ==
    [has_focus |-> focus, focus_requested |-> FALSE,
     command_queue |-> <<>>, calls |-> <<>>]

Called(c, op) == [c EXCEPT !.calls = Append(@, op)]
has_focus(c) == c.has_focus
request_focus(c) ==
    Called([c EXCEPT !.focus_requested = TRUE], [op |-> "request_focus"])
submit_command(c, cmd) == [c EXCEPT !.command_queue = Append(@, cmd)]

set_menu(c, menu) == submit_command(c, Command_menu(SET_MENU, menu))

----------------------------------------------------------------------------
(* ui_builder: the two buttons, the inner widget and the filter *)

(* inc_button building the menu before it changes the count. *)
inc_button_stale_menu(c, d) ==
    LET d1 == [d EXCEPT !.menu_count = @ + 1]
    IN  [ctx |-> set_menu(c, make_menu(d)), data |-> d1]

(* The closure of the "Add menu item" button. *)
inc_button(c, d) ==
    LET d1 == [d EXCEPT !.menu_count = @ + 1]
    IN  [ctx |-> set_menu(c, make_menu(d1)), data |-> d1]

(* The closure of the "Remove menu item" button. *)
dec_button(c, d) ==
    LET d1 == [d EXCEPT !.menu_count = saturating_sub(@, 1)]
    IN  [ctx |-> set_menu(c, make_menu(d1)), data |-> d1]

(* The event method of the inner widget col: a column of a label and a row *)
(* of the two buttons.  A button runs its closure when the left mouse      *)
(* button is released over it; the other widgets ignore events.            *)
col_event(event, c, d) ==
    IF event.kind = "MouseUp" /\ event.mouse.button = "left"
    THEN CASE event.mouse.pos = "inc_button" -> inc_button(c, d)
           [] event.mouse.pos = "dec_button" -> dec_button(c, d)
           [] OTHER -> [ctx |-> c, data |-> d]
    ELSE [ctx |-> c, data |-> d]

is_command(event, selector) ==
    event.kind = "Command" /\ event.cmd.selector = selector

(* What a filter returns: the Option<Event>, the context and the data it   *)
(* leaves, and whether it panicked.                                        *)
Filtered(ret, c, d) == [ret |-> ret, ctx |-> c, data |-> d, panicked |-> FALSE]
Panicked(c, d) == [ret |-> None, ctx |-> c, data |-> d, panicked |-> TRUE]

(* new_file_arm giving the new window the menu of the default State, as  *)
(* main does.                                                              *)
new_file_arm_default_menu(event, c, d) ==
    LET new_win == WindowDesc_new("ui_builder", make_menu(State_default))
        command == Command_window(NEW_WINDOW, new_win)
    IN  Filtered(None, submit_command(c, command), d)

(* The arms of the closure ui_builder gives to EventInterceptor::new. *)
new_file_arm(event, c, d) ==
    LET new_win == WindowDesc_new("ui_builder", make_menu(d))
        command == Command_window(NEW_WINDOW, new_win)
    IN  Filtered(None, submit_command(c, command), d)

(* menu_count_arm taking index 0 when the command carries no index        *)
(* (unwrap_or_default instead of unwrap).                                  *)
menu_count_arm_defaults(event, c, d) ==
    LET i == IF has_object(event.cmd) THEN event.cmd.index ELSE 0
        d1 == [d EXCEPT !.selected = i]
    IN  Filtered(None, set_menu(c, make_menu(d1)), d1)

menu_count_arm(event, c, d) ==
    IF has_object(event.cmd)
    THEN LET d1 == [d EXCEPT !.selected = event.cmd.index]
         IN  Filtered(None, set_menu(c, make_menu(d1)), d1)
    ELSE Panicked(c, d)

(* menu_increment_arm raising the wrong field. *)
menu_increment_arm_wrong_field(event, c, d) ==
    LET d1 == [d EXCEPT !.selected = @ + 1]
    IN  Filtered(None, set_menu(c, make_menu(d1)), d1)

menu_increment_arm(event, c, d) ==
    LET d1 == [d EXCEPT !.menu_count = @ + 1]
    IN  Filtered(None, set_menu(c, make_menu(d1)), d1)

(* menu_decrement_arm clamping selected to the new count. *)
menu_decrement_arm_clamps(event, c, d) ==
    LET n == saturating_sub(d.menu_count, 1)
        d1 == State(n, IF d.selected > n THEN n ELSE d.selected)
    IN  Filtered(None, set_menu(c, make_menu(d1)), d1)

menu_decrement_arm(event, c, d) ==
    LET d1 == [d EXCEPT !.menu_count = saturating_sub(@, 1)]
    IN  Filtered(None, set_menu(c, make_menu(d1)), d1)

right_mouse_down_arm(event, c, d) ==
    LET menu == ContextMenu_new(make_context_menu, event.mouse.pos)
        cmd == Command_context(SHOW_CONTEXT_MENU, menu)
    IN  Filtered(None, submit_command(c, cmd), d)

(* ui_filter showing the context menu on any MouseDown, not only on the   *)
(* right button's.                                                         *)
ui_filter_any_mouse_down(event, c, d) ==
    CASE is_command(event, NEW_FILE) -> new_file_arm(event, c, d)
      [] is_command(event, MENU_COUNT_ACTION) -> menu_count_arm(event, c, d)
      [] is_command(event, MENU_INCREMENT_ACTION) ->
            menu_increment_arm(event, c, d)
      [] is_command(event, MENU_DECREMENT_ACTION) ->
            menu_decrement_arm(event, c, d)
      [] event.kind = "MouseDown" -> right_mouse_down_arm(event, c, d)
      [] OTHER -> Filtered(event, c, d)

(* The closure ui_builder gives to EventInterceptor::new. *)
ui_filter(event, c, d) ==
    CASE is_command(event, NEW_FILE) -> new_file_arm(event, c, d)
      [] is_command(event, MENU_COUNT_ACTION) -> menu_count_arm(event, c, d)
      [] is_command(event, MENU_INCREMENT_ACTION) ->
            menu_increment_arm(event, c, d)
      [] is_command(event, MENU_DECREMENT_ACTION) ->
            menu_decrement_arm(event, c, d)
      [] event.kind = "MouseDown" /\ is_right(event.mouse.button) ->
            right_mouse_down_arm(event, c, d)
      [] OTHER -> Filtered(event, c, d)

(* Two more closures an EventInterceptor can be built with: one that       *)
(* consumes every event and one that returns every event unchanged.        *)
none_filter(event, c, d) == Filtered(None, c, d)
identity_filter(event, c, d) == Filtered(event, c, d)

FilterUi == "ui_builder"
FilterNone == "always None"
FilterIdentity == "identity"
Filters == {FilterUi, FilterNone, FilterIdentity}

(* (f)(event, ctx, data, env) *)
call_f(f, event, c, d) ==
    CASE f = FilterUi -> ui_filter(event, c, d)
      [] f = FilterNone -> none_filter(event, c, d)
      [] f = FilterIdentity -> identity_filter(event, c, d)

----------------------------------------------------------------------------
(* EventInterceptor *)

(* EventInterceptor::event forwarding the event whatever f returned. *)
EventInterceptor_event_always_forwards(f, event, c, d) ==
    LET c1 == IF ~has_focus(c) THEN request_focus(c) ELSE c
        ev == event
        r == call_f(f, ev, c1, d)
    IN  IF r.panicked
        THEN [ctx |-> Called(r.ctx, [op |-> "f", event |-> ev]),
              data |-> r.data, panicked |-> TRUE]
        ELSE LET c2 == Called(r.ctx, [op |-> "f", event |-> ev, ret |-> r.ret])
                 i == col_event(ev,
                                Called(c2, [op |-> "inner.event",
                                            event |-> ev]),
                                r.data)
             IN  [ctx |-> i.ctx, data |-> i.data, panicked |-> FALSE]

(* EventInterceptor::event requesting focus without asking has_focus. *)
EventInterceptor_event_always_focus(f, event, c, d) ==
    LET c1 == request_focus(c)
        ev == event
        r == call_f(f, ev, c1, d)
    IN  IF r.panicked
        THEN [ctx |-> Called(r.ctx, [op |-> "f", event |-> ev]),
              data |-> r.data, panicked |-> TRUE]
        ELSE LET c2 == Called(r.ctx, [op |-> "f", event |-> ev, ret |-> r.ret])
             IN  IF r.ret # None
                 THEN LET i == col_event(r.ret,
                                         Called(c2, [op |-> "inner.event",
                                                     event |-> r.ret]),
                                         r.data)
                      IN  [ctx |-> i.ctx, data |-> i.data, panicked |-> FALSE]
                 ELSE [ctx |-> c2, data |-> r.data, panicked |-> FALSE]

(* EventInterceptor::event requesting focus only for the events it         *)
(* forwards, after f returned.                                             *)
EventInterceptor_event_focus_late(f, event, c, d) ==
    LET ev == event
        r == call_f(f, ev, c, d)
    IN  IF r.panicked
        THEN [ctx |-> Called(r.ctx, [op |-> "f", event |-> ev]),
              data |-> r.data, panicked |-> TRUE]
        ELSE LET c2 == Called(r.ctx, [op |-> "f", event |-> ev, ret |-> r.ret])
             IN  IF r.ret # None
                 THEN LET c3 == IF ~has_focus(c2) THEN request_focus(c2)
                                ELSE c2
                          i == col_event(r.ret,
                                         Called(c3, [op |-> "inner.event",
                                                     event |-> r.ret]),
                                         r.data)
                      IN  [ctx |-> i.ctx, data |-> i.data, panicked |-> FALSE]
                 ELSE [ctx |-> c2, data |-> r.data, panicked |-> FALSE]

(* EventInterceptor::event, for the interceptor built with filter f around *)
(* the widget col.  The call of f is logged with what it returned, or      *)
(* without a return value when it panicked.                                *)
EventInterceptor_event(f, event, c, d) ==
    LET c1 == IF ~has_focus(c) THEN request_focus(c) ELSE c
        ev == event
        r == call_f(f, ev, c1, d)
    IN  IF r.panicked
        THEN [ctx |-> Called(r.ctx, [op |-> "f", event |-> ev]),
              data |-> r.data, panicked |-> TRUE]
        ELSE LET c2 == Called(r.ctx, [op |-> "f", event |-> ev, ret |-> r.ret])
             IN  IF r.ret # None
                 THEN LET i == col_event(r.ret,
                                         Called(c2, [op |-> "inner.event",
                                                     event |-> r.ret]),
                                         r.data)
                      IN  [ctx |-> i.ctx, data |-> i.data, panicked |-> FALSE]
                 ELSE [ctx |-> c2, data |-> r.data, panicked |-> FALSE]

----------------------------------------------------------------------------
(* The program and the toolkit's event loop *)

(* No call was made yet. *)
NoCall == [op |-> "none"]

(* slider.rs: DemoState.  value is an f64, counted here in tenths; main    *)
(* launches the application with value 0.7 and double false.               *)
DemoState(value, double) == [value |-> value, double |-> double]
LaunchedTenths == 7
DemoState_launched == DemoState(LaunchedTenths, FALSE)

Platforms == {"macos", "windows", "linux"}

(* main: the window is created with the menu of the default State, and the *)
(* application is launched with the default State.                         *)
Launched ==
    /\ target_os \in Platforms
    /\ data = State_default
    /\ windowMenu = make_menu(State_default)
    /\ windows = 1
    /\ contextMenu = None
    /\ cmdQueue = <<>>
    /\ pc = "idle"
    /\ cur = None
    /\ ctx = EventCtx_new(TRUE)
    /\ increments = 0
    /\ lifecycle = NoCall
    /\ demo = DemoState_launched
    /\ lensCall = NoCall

Init == Launched /\ filter = FilterUi

(* Events that raise a counter of the model; the environment stops         *)
(* sending them at the bound.                                              *)
IsIncrement(event) ==
    \/ is_command(event, MENU_INCREMENT_ACTION)
    \/ event = Event_MouseUp("left", "inc_button")

(* The toolkit takes the next event and calls the root widget's event      *)
(* method with a fresh context.  It does so only between events, and once  *)
(* the commands of the previous event are processed.                       *)
Deliver(event, focus) ==
    /\ pc = "idle"
    /\ cmdQueue = <<>>
    /\ IsIncrement(event) => data.menu_count < MaxCount /\ increments < MaxCount
    /\ is_command(event, NEW_FILE) => windows < MaxWindows
    /\ pc' = "handling"
    /\ cur' = event
    /\ ctx' = EventCtx_new(focus)
    /\ UNCHANGED <<lifecycle, demo, lensCall,
                   target_os, filter, data, cmdQueue, windowMenu, windows,
                   contextMenu, increments>>

(* Handle with the submitted commands run while the event is handled: the *)
(* menu of a SET_MENU command replaces the window's menu at once.          *)
Handle_runs_commands_inline ==
    /\ pc = "handling"
    /\ LET r == EventInterceptor_event(filter, cur, ctx, data)
           q == r.ctx.command_queue
       IN  /\ data' = r.data
           /\ ctx' = r.ctx
           /\ cmdQueue' = cmdQueue \o q
           /\ pc' = IF r.panicked THEN "panicked" ELSE "idle"
           /\ windowMenu' = IF q # <<>> /\ q[1].selector = SET_MENU
                            THEN q[1].menu
                            ELSE windowMenu
    /\ increments' = IF increments >= 0 /\ is_command(cur, MENU_INCREMENT_ACTION)
                     THEN increments + 1
                     ELSE -1
    /\ UNCHANGED <<lifecycle, demo, lensCall,
                   target_os, filter, cur, windows, contextMenu>>

(* The root widget, the EventInterceptor, handles the event. *)
Handle ==
    /\ pc = "handling"
    /\ LET r == EventInterceptor_event(filter, cur, ctx, data)
       IN  /\ data' = r.data
           /\ ctx' = r.ctx
           /\ cmdQueue' = cmdQueue \o r.ctx.command_queue
           /\ pc' = IF r.panicked THEN "panicked" ELSE "idle"
    /\ increments' = IF increments >= 0 /\ is_command(cur, MENU_INCREMENT_ACTION)
                     THEN increments + 1
                     ELSE -1
    /\ UNCHANGED <<lifecycle, demo, lensCall,
                   target_os, filter, cur, windowMenu, windows, contextMenu>>

(* The toolkit processes the oldest queued command. *)
ProcessCommand ==
    /\ pc = "idle"
    /\ cmdQueue # <<>>
    /\ LET cmd == Head(cmdQueue)
       IN  /\ windowMenu' = IF cmd.selector = SET_MENU THEN cmd.menu
                            ELSE windowMenu
           /\ windows' = IF cmd.selector = NEW_WINDOW THEN windows + 1
                         ELSE windows
           /\ contextMenu' = IF cmd.selector = SHOW_CONTEXT_MENU
                             THEN cmd.context_menu
                             ELSE contextMenu
    /\ cmdQueue' = Tail(cmdQueue)
    /\ UNCHANGED <<lifecycle, demo, lensCall,
                   target_os, filter, data, pc, cur, ctx, increments>>

Next ==
    \/ \E event \in Events, focus \in BOOLEAN : Deliver(event, focus)
    \/ Handle
    \/ ProcessCommand

Spec == Init /\ [][Next]_vars

(* The same event loop around an EventInterceptor built with any of the    *)
(* three filters.                                                          *)
InterceptorInit == Launched /\ filter \in Filters
InterceptorSpec == InterceptorInit /\ [][Next]_vars

----------------------------------------------------------------------------
(* make_menu alone, applied to any State *)

States == {State(n, s) : n \in 0..MaxCount, s \in 0..MaxIndex}

MenuInit ==
    /\ target_os \in Platforms
    /\ filter = FilterUi
    /\ data \in States
    /\ windowMenu = MenuDesc_empty
    /\ windows = 0
    /\ contextMenu = None
    /\ cmdQueue = <<>>
    /\ pc = "start"
    /\ cur = None
    /\ ctx = EventCtx_new(TRUE)
    /\ increments = 0
    /\ lifecycle = NoCall
    /\ demo = DemoState_launched
    /\ lensCall = NoCall

(* WindowDesc::new(ui_builder).menu(make_menu(state)) *)
BuildMenu ==
    /\ pc = "start"
    /\ windowMenu' = make_menu(data)
    /\ windows' = 1
    /\ pc' = "built"
    /\ UNCHANGED <<lifecycle, demo, lensCall,
                   target_os, filter, data, cur, ctx, cmdQueue, contextMenu,
                   increments>>

MenuNext == BuildMenu
MenuSpec == MenuInit /\ [][MenuNext]_vars

----------------------------------------------------------------------------
(* Properties of make_menu, under MenuSpec *)

(* Where the "Custom" submenu stands among the entries of a menu. *)
CustomAt(menu) ==
    {k \in 1..Len(menu.items) :
        /\ menu.items[k].kind = "menu"
        /\ menu.items[k].title = LocalizedString_new("Custom")}

(* The generated items of a menu: the items of its "Custom" submenu. *)
GeneratedItems(menu) ==
    IF CustomAt(menu) = {} THEN <<>>
    ELSE menu.items[CHOOSE k \in CustomAt(menu) : TRUE].items

(* C1: make_menu(state) appends the "Custom" submenu if and only if        *)
(* state.menu_count is not 0; the submenu is then the last entry of the    *)
(* menu and holds exactly menu_count items, whose commands carry the       *)
(* indices 0, 1, ..., menu_count - 1 in this order.                        *)
C1_CustomSubmenu ==
    pc = "built" =>
        LET n == Len(windowMenu.items)
            items == GeneratedItems(windowMenu)
        IN  IF data.menu_count # 0
            THEN /\ CustomAt(windowMenu) = {n}
                 /\ Len(items) = data.menu_count
                 /\ \A i \in 0..(data.menu_count - 1) :
                        /\ items[i + 1].kind = "item"
                        /\ items[i + 1].command =
                               Command_index(MENU_COUNT_ACTION, i)
            ELSE CustomAt(windowMenu) = {}

C1_Witness ==
    /\ pc = "built"
    /\ data.menu_count = 3
    /\ Len(GeneratedItems(windowMenu)) = 3
    /\ GeneratedItems(windowMenu)[3].command.index = 2

(* The indices of the generated items that are marked selected. *)
SelectedIndices(menu) ==
    {i \in 0..(Len(GeneratedItems(menu)) - 1) :
        GeneratedItems(menu)[i + 1].selected}

(* C2: among the items make_menu(state) generates, the item of index       *)
(* state.selected is the only one marked selected when state.selected <    *)
(* menu_count, and no item is marked selected when state.selected >=       *)
(* menu_count.                                                             *)
C2_OneSelected ==
    pc = "built" =>
        SelectedIndices(windowMenu) =
            IF data.selected < data.menu_count THEN {data.selected} ELSE {}

C2_Witness ==
    /\ pc = "built"
    /\ data = State(3, 2)
    /\ SelectedIndices(windowMenu) = {2}

(* C3: a generated item of index i is disabled exactly when i % 3 = 0,     *)
(* whatever state.selected and menu_count are.                             *)
C3_DisabledEveryThird ==
    pc = "built" =>
        \A i \in 0..(Len(GeneratedItems(windowMenu)) - 1) :
            ~GeneratedItems(windowMenu)[i + 1].enabled <=> (i % 3 = 0)

C3_Witness ==
    /\ pc = "built"
    /\ data.menu_count = 4
    /\ ~GeneratedItems(windowMenu)[1].enabled
    /\ GeneratedItems(windowMenu)[2].enabled
    /\ GeneratedItems(windowMenu)[3].enabled
    /\ ~GeneratedItems(windowMenu)[4].enabled

----------------------------------------------------------------------------
(* Properties of the running program, under Spec and InterceptorSpec *)

(* Index, enabled and selected of each generated item of a menu. *)
ItemFlags(menu) ==
    [k \in 1..Len(GeneratedItems(menu)) |->
        <<GeneratedItems(menu)[k].command.index,
          GeneratedItems(menu)[k].enabled,
          GeneratedItems(menu)[k].selected>>]

(* C4, as stated: after three increment commands from the launch,          *)
(* menu_count is 3 and the menu rebuilt from the state has the items       *)
(* 0 (disabled, unselected), 1 (enabled, unselected), 2 (enabled,          *)
(* unselected).                                                            *)
C4_AsStated ==
    increments = 3 =>
        /\ data.menu_count = 3
        /\ ItemFlags(make_menu(data)) =
               << <<0, FALSE, FALSE>>, <<1, TRUE, FALSE>>, <<2, TRUE, FALSE>> >>

(* C4, amended: after three increment commands from the launch, the state  *)
(* is {menu_count: 3, selected: 0} and the menu rebuilt from it has the    *)
(* items 0 (disabled, selected), 1 (enabled, unselected), 2 (enabled,      *)
(* unselected): selected is still 0, so item 0 is marked selected.         *)
C4_ThreeIncrements ==
    increments = 3 =>
        /\ data = State(3, 0)
        /\ ItemFlags(make_menu(data)) =
               << <<0, FALSE, TRUE>>, <<1, TRUE, FALSE>>, <<2, TRUE, FALSE>> >>

C4_Witness ==
    /\ increments = 3
    /\ pc = "idle"
    /\ cmdQueue = <<>>
    /\ ItemFlags(windowMenu) =
           << <<0, FALSE, TRUE>>, <<1, TRUE, FALSE>>, <<2, TRUE, FALSE>> >>

(* The two ways to decrement: the command and the "Remove menu item"       *)
(* button.                                                                 *)
IsDecrement(event) ==
    \/ is_command(event, MENU_DECREMENT_ACTION)
    \/ event = Event_MouseUp("left", "dec_button")

(* C5: handling a decrement, by the command or by the button, leaves       *)
(* menu_count at 0 when it is 0 and lowers it by exactly 1 otherwise,      *)
(* without failing; and menu_count is never negative.                      *)
C5_DecrementSaturates ==
    /\ [](data.menu_count >= 0)
    /\ [][(pc = "handling" /\ IsDecrement(cur)) =>
            /\ pc' = "idle"
            /\ data'.menu_count = IF data.menu_count = 0 THEN 0
                                  ELSE data.menu_count - 1]_vars

(* A decrement was handled at menu_count 0: the window still shows the     *)
(* menu of the state before, which has no Custom submenu.                  *)
C5_Witness ==
    /\ pc = "idle"
    /\ cur = Event_MouseUp("left", "dec_button")
    /\ cmdQueue # <<>>
    /\ CustomAt(windowMenu) = {}
    /\ data.menu_count = 0

(* The events the inner widget received while the event was handled. *)
IsInnerCall(call) == call.op = "inner.event"
InnerEvents(c) ==
    [k \in 1..Len(SelectSeq(c.calls, IsInnerCall)) |->
        SelectSeq(c.calls, IsInnerCall)[k].event]

(* C6: behind an EventInterceptor whose filter always returns None, the    *)
(* inner widget's event method is never called, whatever events arrive.    *)
C6_NoneFilterBlocks ==
    filter = FilterNone => InnerEvents(ctx) = <<>> /\ data = State_default

C6_Witness ==
    /\ filter = FilterNone
    /\ pc = "idle"
    /\ cur = Event_MouseUp("left", "inc_button")
    /\ Len(ctx.calls) >= 1
    /\ InnerEvents(ctx) = <<>>

(* C7, as stated: behind an EventInterceptor with the identity filter,     *)
(* handling an event leaves what the inner widget alone leaves when it     *)
(* receives the event directly: the events it received, the state, the     *)
(* commands submitted and the focus requested.                             *)
C7_AsStated ==
    [][(pc = "handling" /\ filter = FilterIdentity) =>
        LET direct == col_event(cur, ctx, data)
        IN  /\ pc' = "idle"
            /\ InnerEvents(ctx') = <<cur>>
            /\ data' = direct.data
            /\ ctx'.command_queue = direct.ctx.command_queue
            /\ ctx'.focus_requested = direct.ctx.focus_requested]_vars

(* C7, amended: behind an EventInterceptor with the identity filter, the   *)
(* events the inner widget receives, the state and the commands submitted  *)
(* are those of the inner widget alone receiving the same events; the      *)
(* focus is not: the interceptor requests focus for every event that       *)
(* arrives while the context has no focus, which the inner widget alone    *)
(* does not.                                                               *)
C7_IdentityExceptFocus ==
    [][(pc = "handling" /\ filter = FilterIdentity) =>
        LET direct == col_event(cur, ctx, data)
        IN  /\ pc' = "idle"
            /\ InnerEvents(ctx') = <<cur>>
            /\ data' = direct.data
            /\ ctx'.command_queue = direct.ctx.command_queue
            /\ ~direct.ctx.focus_requested
            /\ ctx'.focus_requested = ~ctx.has_focus]_vars

C7_Witness ==
    /\ filter = FilterIdentity
    /\ pc = "idle"
    /\ cur = Event_MouseUp("left", "inc_button")
    /\ InnerEvents(ctx) = <<cur>>
    /\ data.menu_count = 2
    /\ ctx.focus_requested
    /\ Len(ctx.command_queue) = 1

(* The events whose handlers change menu_count or selected. *)
IsMutation(event) ==
    \/ event = Event_MouseUp("left", "inc_button")
    \/ event = Event_MouseUp("left", "dec_button")
    \/ is_command(event, MENU_COUNT_ACTION) /\ has_object(event.cmd)
    \/ is_command(event, MENU_INCREMENT_ACTION)
    \/ is_command(event, MENU_DECREMENT_ACTION)

(* C8: the handling of an event that changes menu_count or selected (the   *)
(* two buttons and the three action commands) submits exactly one command, *)
(* SET_MENU with make_menu of the state the handler leaves; and when no    *)
(* command is waiting, the window's menu is make_menu of the current       *)
(* state.                                                                  *)
C8_MenuFollowsState ==
    /\ []((pc # "handling" /\ cmdQueue = <<>>) => windowMenu = make_menu(data))
    /\ [][(pc = "handling" /\ IsMutation(cur)) =>
            /\ pc' = "idle"
            /\ ctx'.command_queue = <<Command_menu(SET_MENU, make_menu(data'))>>
            /\ cmdQueue' = ctx'.command_queue]_vars

C8_Witness ==
    /\ pc = "idle"
    /\ cur = Event_MouseUp("left", "inc_button")
    /\ cmdQueue = <<>>
    /\ data = State(2, 1)
    /\ ItemFlags(windowMenu) = << <<0, FALSE, FALSE>>, <<1, TRUE, TRUE>> >>

(* C9: the calls made while one event is handled are, in this order:       *)
(* request_focus if and only if the context has no focus; one call of the  *)
(* filter with the event; and, if and only if the filter returned          *)
(* Some(e), one call of the inner widget's event method with e.            *)
C9_CallOrder ==
    (pc \in {"idle", "panicked"} /\ cur # None) =>
        LET focus == IF ctx.has_focus THEN <<>>
                     ELSE <<[op |-> "request_focus"]>>
            n == Len(focus) + 1
        IN  /\ Len(ctx.calls) >= n
            /\ SubSeq(ctx.calls, 1, n - 1) = focus
            /\ ctx.calls[n].op = "f"
            /\ ctx.calls[n].event = cur
            /\ SubSeq(ctx.calls, n + 1, Len(ctx.calls)) =
                   IF pc = "idle" /\ ctx.calls[n].ret # None
                   THEN <<[op |-> "inner.event", event |-> ctx.calls[n].ret]>>
                   ELSE <<>>
            /\ ctx.focus_requested = ~ctx.has_focus

(* Focus was requested for an event the filter then consumed. *)
C9_Witness ==
    /\ pc = "idle"
    /\ filter = FilterUi
    /\ cur = Event_Command(Command_from(MENU_INCREMENT_ACTION))
    /\ ~ctx.has_focus
    /\ Len(ctx.calls) = 2
    /\ ctx.calls[1].op = "request_focus"
    /\ ctx.calls[2].ret = None

IsBadCount(event) ==
    is_command(event, MENU_COUNT_ACTION) /\ ~has_object(event.cmd)

(* C11: the handling of a MENU_COUNT_ACTION command without an index       *)
(* panics: selected (and the rest of the state) is left as it was, no      *)
(* command is submitted, and the program handles nothing afterwards.  The  *)
(* handling of every other event ends normally.                            *)
C11_MissingPayloadPanics ==
    /\ [][pc = "handling" =>
            IF IsBadCount(cur)
            THEN /\ pc' = "panicked"
                 /\ data' = data
                 /\ ctx'.command_queue = <<>>
                 /\ cmdQueue' = cmdQueue
            ELSE pc' = "idle"]_vars
    /\ [][pc = "panicked" => UNCHANGED vars]_vars

(* The panic, in a state whose selected was set before. *)
C11_Witness ==
    /\ pc = "panicked"
    /\ IsBadCount(cur)
    /\ data = State(3, 2)
    /\ cmdQueue = <<>>
    /\ windowMenu = make_menu(data)

(* The events C13 names as consumed by the filter of ui_builder. *)
IsConsumed(event) ==
    \/ is_command(event, NEW_FILE)
    \/ is_command(event, MENU_COUNT_ACTION)
    \/ is_command(event, MENU_INCREMENT_ACTION)
    \/ is_command(event, MENU_DECREMENT_ACTION)
    \/ event.kind = "MouseDown" /\ is_right(event.mouse.button)

(* The call of the filter in the call log of a context. *)
IsFilterCall(call) == call.op = "f"
FilterCalls(c) == SelectSeq(c.calls, IsFilterCall)

(* C13: the filter of ui_builder returns None exactly for the commands     *)
(* NEW_FILE, MENU_COUNT_ACTION, MENU_INCREMENT_ACTION and                  *)
(* MENU_DECREMENT_ACTION and for a MouseDown of the right button, and the  *)
(* inner widget receives none of them; it returns every other event        *)
(* unchanged, the inner widget receives that event exactly once, and the   *)
(* state and the commands submitted are then those the inner widget        *)
(* leaves: the filter changes and submits nothing.  (A MENU_COUNT_ACTION   *)
(* without an index does not return at all: see C11.)                      *)
C13_ConsumedEvents ==
    /\ []((pc = "idle" /\ cur # None) =>
            /\ Len(FilterCalls(ctx)) = 1
            /\ FilterCalls(ctx)[1].event = cur
            /\ FilterCalls(ctx)[1].ret = (IF IsConsumed(cur) THEN None ELSE cur)
            /\ InnerEvents(ctx) = (IF IsConsumed(cur) THEN <<>> ELSE <<cur>>))
    /\ []((pc = "panicked") => IsConsumed(cur) /\ InnerEvents(ctx) = <<>>)
    /\ [][(pc = "handling" /\ ~IsConsumed(cur)) =>
            /\ pc' = "idle"
            /\ data' = col_event(cur, ctx, data).data
            /\ ctx'.command_queue = col_event(cur, ctx, data).ctx.command_queue]_vars

(* A MouseDown of the left button went through to the inner widget. *)
C13_Witness ==
    /\ pc = "idle"
    /\ cur = Event_MouseDown("left", "inc_button")
    /\ InnerEvents(ctx) = <<cur>>
    /\ ctx.command_queue = <<>>
    /\ data.menu_count = 2

(* The commands of one selector among those submitted in a context. *)
Submitted(c, selector) ==
    {k \in 1..Len(c.command_queue) : c.command_queue[k].selector = selector}

(* C14: each handler changes its own field of State only.                  *)
(* MENU_COUNT_ACTION sets selected to its index and leaves menu_count; the *)
(* increment and decrement buttons and commands change menu_count and      *)
(* leave selected, which is not clamped to the new count; NEW_FILE and a   *)
(* right MouseDown leave both fields and submit no SET_MENU command.       *)
C14_OwnFieldOnly ==
    [][pc = "handling" =>
        /\ (is_command(cur, MENU_COUNT_ACTION) /\ has_object(cur.cmd)) =>
              data' = State(data.menu_count, cur.cmd.index)
        /\ IsIncrement(cur) => data' = State(data.menu_count + 1, data.selected)
        /\ IsDecrement(cur) =>
              /\ data'.selected = data.selected
              /\ data'.menu_count \in {data.menu_count, data.menu_count - 1}
        /\ (\/ is_command(cur, NEW_FILE)
            \/ cur.kind = "MouseDown" /\ is_right(cur.mouse.button)) =>
              /\ data' = data
              /\ Submitted(ctx', SET_MENU) = {}
              /\ Len(ctx'.command_queue) = 1]_vars

(* After a decrement, selected points past the last item. *)
C14_Witness ==
    /\ pc = "idle"
    /\ is_command(cur, MENU_DECREMENT_ACTION)
    /\ data = State(1, 3)
    /\ ctx.command_queue = <<Command_menu(SET_MENU, make_menu(data))>>

(* Title key and command selector of each entry of a menu of items. *)
ItemCommands(menu) ==
    [k \in 1..Len(menu.items) |->
        <<menu.items[k].title.key, menu.items[k].command>>]

(* C16: the handling of a NEW_FILE command submits exactly one command,    *)
(* NEW_WINDOW with a window of ui_builder whose menu is make_menu of the   *)
(* state at that time; the handling of a right MouseDown submits exactly   *)
(* one command, SHOW_CONTEXT_MENU at the mouse position with the menu of   *)
(* two items Increment (MENU_INCREMENT_ACTION) and Decrement               *)
(* (MENU_DECREMENT_ACTION), whatever the state.                            *)
C16_WindowAndContextMenu ==
    [][pc = "handling" =>
        /\ is_command(cur, NEW_FILE) =>
              /\ Len(ctx'.command_queue) = 1
              /\ ctx'.command_queue[1].selector = NEW_WINDOW
              /\ ctx'.command_queue[1].window.root = "ui_builder"
              /\ ctx'.command_queue[1].window.menu = make_menu(data)
              /\ ItemFlags(ctx'.command_queue[1].window.menu) =
                     [k \in 1..data.menu_count |->
                         <<k - 1, (k - 1) % 3 # 0, k - 1 = data.selected>>]
        /\ (cur.kind = "MouseDown" /\ is_right(cur.mouse.button)) =>
              /\ Len(ctx'.command_queue) = 1
              /\ ctx'.command_queue[1].selector = SHOW_CONTEXT_MENU
              /\ ctx'.command_queue[1].context_menu.pos = cur.mouse.pos
              /\ ItemCommands(ctx'.command_queue[1].context_menu.menu) =
                     << <<"Increment", [selector |-> MENU_INCREMENT_ACTION]>>,
                        <<"Decrement", [selector |-> MENU_DECREMENT_ACTION]>> >>
              /\ \A k \in 1..2 :
                     /\ ctx'.command_queue[1].context_menu.menu.items[k].enabled
                     /\ ~ctx'.command_queue[1].context_menu.menu.items[k].selected
       ]_vars

(* A NEW_WINDOW command is waiting whose window has the menu of a state    *)
(* other than the default.                                                 *)
C16_Witness ==
    /\ pc = "idle"
    /\ is_command(cur, NEW_FILE)
    /\ data = State(2, 1)
    /\ Len(cmdQueue) = 1
    /\ cmdQueue[1].selector = NEW_WINDOW
    /\ ItemFlags(cmdQueue[1].window.menu) =
           << <<0, FALSE, FALSE>>, <<1, TRUE, TRUE>> >>

----------------------------------------------------------------------------
(* The program when menu commands come from the menus alone *)

(* Index i is that of an enabled item of a menu make_menu builds: of the  *)
(* item make_menu generates for i from some State that has more than i     *)
(* items.                                                                  *)
IsEnabledItem(i) ==
    {s \in States :
        /\ i < s.menu_count
        /\ make_menu_item(s, i).command = Command_index(MENU_COUNT_ACTION, i)
        /\ make_menu_item(s, i).enabled} # {}

(* The toolkit sends MENU_COUNT_ACTION only when an enabled item of a menu *)
(* built by make_menu is chosen, with the command of that item.            *)
MenuDeliver(event, focus) ==
    /\ is_command(event, MENU_COUNT_ACTION) =>
          has_object(event.cmd) /\ IsEnabledItem(event.cmd.index)
    /\ Deliver(event, focus)

MenuClickNext ==
    \/ \E event \in Events, focus \in BOOLEAN : MenuDeliver(event, focus)
    \/ Handle
    \/ ProcessCommand

MenuClickSpec == Init /\ [][MenuClickNext]_vars

(* The generated items of a menu that are both selected and disabled. *)
SelectedDisabled(menu) ==
    {i \in 0..(Len(GeneratedItems(menu)) - 1) :
        /\ GeneratedItems(menu)[i + 1].selected
        /\ ~GeneratedItems(menu)[i + 1].enabled}

(* C15: when MENU_COUNT_ACTION(i) arrives only for enabled items of menus  *)
(* built by make_menu, selected is 0 or an index not divisible by 3 in     *)
(* every state reached from the launch, and item 0 is the only generated   *)
(* item that is ever both selected and disabled, in the menu of the state  *)
(* and in the menu the window has.                                         *)
C15_SelectedEnabledOrZero ==
    /\ (data.selected = 0 \/ data.selected % 3 # 0)
    /\ SelectedDisabled(make_menu(data)) \subseteq {0}
    /\ SelectedDisabled(windowMenu) \subseteq {0}
    /\ pc # "panicked"

(* Item 2 was chosen; before that item 0 was selected and disabled. *)
C15_Witness ==
    /\ pc = "idle"
    /\ cur = Event_Command(Command_index(MENU_COUNT_ACTION, 2))
    /\ data = State(3, 2)
    /\ cmdQueue # <<>>
    /\ SelectedDisabled(windowMenu) = {0}
    /\ SelectedDisabled(make_menu(data)) = {}

----------------------------------------------------------------------------
(* paint, layout and update of the EventInterceptor *)

(* The contexts of the three calls; calls is the log of the calls made     *)
(* with the context.                                                       *)
PaintCtx_new == [kind |-> "PaintCtx", calls |-> <<>>]
LayoutCtx_new == [kind |-> "LayoutCtx", calls |-> <<>>]
UpdateCtx_new == [kind |-> "UpdateCtx", calls |-> <<>>]

(* The arguments the toolkit passes, opaque here. *)
BaseStates == {"BaseState A", "BaseState B"}
BoxConstraintss == {"tight", "loose"}
OldData(d) == {None, State_default, d}

(* paint, layout and update of the inner widget col.  What col paints is   *)
(* left out; the Size it computes is a value of the constraints and the    *)
(* data.                                                                   *)
col_paint(c, state, d) == c
col_layout(c, bc, d) == [ctx |-> c, size |-> [of |-> "col", bc |-> bc, data |-> d]]
col_update(c, old, new) == c

EventInterceptor_paint(f, c, state, d) ==
    col_paint(Called(c, [op |-> "inner.paint", state |-> state, data |-> d]),
              state, d)

(* EventInterceptor::layout returning a Size of its own: the largest the   *)
(* constraints allow.                                                      *)
EventInterceptor_layout_own_size(f, c, bc, d) ==
    LET r == col_layout(Called(c, [op |-> "inner.layout", bc |-> bc,
                                   data |-> d]),
                        bc, d)
    IN  [ctx |-> r.ctx, size |-> [of |-> "bc.max()", bc |-> bc]]

EventInterceptor_layout(f, c, bc, d) ==
    col_layout(Called(c, [op |-> "inner.layout", bc |-> bc, data |-> d]),
               bc, d)

EventInterceptor_update(f, c, old, new) ==
    col_update(Called(c, [op |-> "inner.update", old |-> old, new |-> new]),
               old, new)

(* The toolkit calls paint, layout and update of the root widget between   *)
(* events, with the data as it is.  The calls change lifecycle alone, so   *)
(* Spec, which leaves them out, loses no state of the other variables.     *)
Paint(state) ==
    /\ pc = "idle"
    /\ lifecycle' = [op |-> "paint", state |-> state, data |-> data,
                     ctx |-> EventInterceptor_paint(filter, PaintCtx_new,
                                                    state, data)]
    /\ UNCHANGED <<target_os, filter, data, pc, cur, ctx, cmdQueue,
                   windowMenu, windows, contextMenu, increments, demo,
                   lensCall>>

Layout(bc) ==
    /\ pc = "idle"
    /\ LET r == EventInterceptor_layout(filter, LayoutCtx_new, bc, data)
       IN  lifecycle' = [op |-> "layout", bc |-> bc, data |-> data,
                         ctx |-> r.ctx, size |-> r.size]
    /\ UNCHANGED <<target_os, filter, data, pc, cur, ctx, cmdQueue,
                   windowMenu, windows, contextMenu, increments, demo,
                   lensCall>>

Update(old) ==
    /\ pc = "idle"
    /\ lifecycle' = [op |-> "update", old |-> old, new |-> data,
                     ctx |-> EventInterceptor_update(filter, UpdateCtx_new,
                                                     old, data)]
    /\ UNCHANGED <<target_os, filter, data, pc, cur, ctx, cmdQueue,
                   windowMenu, windows, contextMenu, increments, demo,
                   lensCall>>

(* The window of an EventInterceptor built with any filter, in any State,  *)
(* between two events.                                                     *)
WidgetInit ==
    /\ target_os \in Platforms
    /\ filter \in Filters
    /\ data \in States
    /\ windowMenu = make_menu(data)
    /\ windows = 1
    /\ contextMenu = None
    /\ cmdQueue = <<>>
    /\ pc = "idle"
    /\ cur = None
    /\ ctx = EventCtx_new(TRUE)
    /\ increments = -1
    /\ lifecycle = NoCall
    /\ demo = DemoState_launched
    /\ lensCall = NoCall

WidgetNext ==
    \/ \E state \in BaseStates : Paint(state)
    \/ \E bc \in BoxConstraintss : Layout(bc)
    \/ \E old \in OldData(data) : Update(old)

WidgetSpec == WidgetInit /\ [][WidgetNext]_vars

(* C12: a paint, layout or update call on the EventInterceptor makes       *)
(* exactly one call, of the same operation on the inner widget with the    *)
(* same arguments: the filter is not called and focus is not requested;    *)
(* layout returns the Size the inner widget returns; and the calls leave   *)
(* the application state, the queue and the event context as they are.     *)
C12_PassThrough ==
    /\ [](lifecycle.op = "paint" =>
            /\ lifecycle.data = data
            /\ lifecycle.ctx.calls =
                   <<[op |-> "inner.paint", state |-> lifecycle.state,
                      data |-> lifecycle.data]>>)
    /\ [](lifecycle.op = "layout" =>
            /\ lifecycle.data = data
            /\ lifecycle.ctx.calls =
                   <<[op |-> "inner.layout", bc |-> lifecycle.bc,
                      data |-> lifecycle.data]>>
            /\ lifecycle.size =
                   col_layout(LayoutCtx_new, lifecycle.bc, lifecycle.data).size)
    /\ [](lifecycle.op = "update" =>
            /\ lifecycle.new = data
            /\ lifecycle.ctx.calls =
                   <<[op |-> "inner.update", old |-> lifecycle.old,
                      new |-> lifecycle.new]>>)
    /\ [][lifecycle' # lifecycle =>
            /\ data' = data
            /\ ctx' = ctx
            /\ cmdQueue' = cmdQueue]_vars

C12_Witness ==
    /\ lifecycle.op = "layout"
    /\ filter = FilterUi
    /\ data = State(2, 1)
    /\ lifecycle.bc = "tight"
    /\ lifecycle.size = [of |-> "col", bc |-> "tight", data |-> State(2, 1)]
    /\ Len(lifecycle.ctx.calls) = 1

----------------------------------------------------------------------------
(* slider.rs: the lenses of DemoState *)

Values == 0..MaxValue
DemoStates == {DemoState(v, b) : v \in Values, b \in BOOLEAN}

(* The closures with_mut is called with: those that write a given value,   *)
(* and one whose result depends on the value it finds.                     *)
ValueClosures ==
    {[x \in Values |-> w] : w \in Values} \cup {[x \in Values |-> MaxValue - x]}
DoubleClosures ==
    {[b \in BOOLEAN |-> w] : w \in BOOLEAN} \cup {[b \in BOOLEAN |-> ~b]}

(* lenses::demo_state::Value *)
Value_get(d) == d.value

(* Value::with_mut running its closure on a copy of the field. *)
Value_with_mut_on_copy(d, f) == d

Value_with_mut(d, f) == [d EXCEPT !.value = f[@]]

(* lenses::demo_state::Double *)
Double_get(d) == d.double

Double_with_mut(d, f) == [d EXCEPT !.double = f[@]]

(* The widgets bound to a lens (LensWrap) call get and with_mut. *)
ValueGet ==
    /\ lensCall' = [lens |-> "Value", op |-> "get", value |-> Value_get(demo)]
    /\ UNCHANGED <<target_os, filter, data, pc, cur, ctx, cmdQueue,
                   windowMenu, windows, contextMenu, increments, lifecycle,
                   demo>>

ValueWithMut(f) ==
    /\ demo' = Value_with_mut(demo, f)
    /\ lensCall' = [lens |-> "Value", op |-> "with_mut", value_closure |-> f,
                    before |-> demo]
    /\ UNCHANGED <<target_os, filter, data, pc, cur, ctx, cmdQueue,
                   windowMenu, windows, contextMenu, increments, lifecycle>>

DoubleGet ==
    /\ lensCall' = [lens |-> "Double", op |-> "get", double |-> Double_get(demo)]
    /\ UNCHANGED <<target_os, filter, data, pc, cur, ctx, cmdQueue,
                   windowMenu, windows, contextMenu, increments, lifecycle,
                   demo>>

DoubleWithMut(f) ==
    /\ demo' = Double_with_mut(demo, f)
    /\ lensCall' = [lens |-> "Double", op |-> "with_mut", double_closure |-> f,
                    before |-> demo]
    /\ UNCHANGED <<target_os, filter, data, pc, cur, ctx, cmdQueue,
                   windowMenu, windows, contextMenu, increments, lifecycle>>

(* The lenses applied to any DemoState.  The variables of multiwin.rs play *)
(* no part.                                                                *)
LensInit ==
    /\ target_os \in Platforms
    /\ filter = FilterUi
    /\ data = State_default
    /\ windowMenu = make_menu(State_default)
    /\ windows = 1
    /\ contextMenu = None
    /\ cmdQueue = <<>>
    /\ pc = "idle"
    /\ cur = None
    /\ ctx = EventCtx_new(TRUE)
    /\ increments = 0
    /\ lifecycle = NoCall
    /\ demo \in DemoStates
    /\ lensCall = NoCall

LensNext ==
    \/ ValueGet
    \/ \E f \in ValueClosures : ValueWithMut(f)
    \/ DoubleGet
    \/ \E f \in DoubleClosures : DoubleWithMut(f)

LensSpec == LensInit /\ [][LensNext]_vars

(* C17: Value.get returns data.value, and Value.with_mut gives its         *)
(* closure the value field, stores what the closure leaves there and       *)
(* leaves double; Double.get returns data.double, and Double.with_mut      *)
(* does the same with the double field and leaves value; so a get after a  *)
(* with_mut whose closure writes v returns v.                              *)
C17_LensesProjectOneField ==
    /\ (lensCall.op = "get" /\ lensCall.lens = "Value") =>
          lensCall.value = demo.value
    /\ (lensCall.op = "get" /\ lensCall.lens = "Double") =>
          lensCall.double = demo.double
    /\ (lensCall.op = "with_mut" /\ lensCall.lens = "Value") =>
          /\ demo.value = lensCall.value_closure[lensCall.before.value]
          /\ demo.double = lensCall.before.double
          /\ Value_get(demo) = lensCall.value_closure[lensCall.before.value]
          /\ Double_get(demo) = lensCall.before.double
    /\ (lensCall.op = "with_mut" /\ lensCall.lens = "Double") =>
          /\ demo.double = lensCall.double_closure[lensCall.before.double]
          /\ demo.value = lensCall.before.value
          /\ Double_get(demo) = lensCall.double_closure[lensCall.before.double]
          /\ Value_get(demo) = lensCall.before.value

(* Value.with_mut wrote 3 over 7 and left double true. *)
C17_Witness ==
    /\ lensCall.op = "with_mut"
    /\ lensCall.lens = "Value"
    /\ lensCall.before = DemoState(7, TRUE)
    /\ lensCall.value_closure = [x \in Values |-> 3]
    /\ demo = DemoState(3, TRUE)

====
